---------------------------- MODULE Spec2Model ----------------------------
(***************************************************************************)
(* Model of src/server.js: the POST /api/chat handler, its helpers         *)
(* (encodeImageToBase64, extractTextFromPdf, processVideoFrames,           *)
(* callAiApi) and the part of the file system they share.                  *)
(*                                                                         *)
(* Every action is one run-to-completion step of the Node event loop: the  *)
(* code between two awaits / callbacks.  The environment (file system,     *)
(* ffprobe, ffmpeg, pdf-parse, the remote model) answers                   *)
(* nondeterministically, by the \E inside each action.                     *)
(***************************************************************************)
EXTENDS Integers, Sequences, FiniteSets, TLC

\* ------------------------------------------------------------------ bounds
\* Number of requests in flight at the same time under Spec.
NumRequests == 1
\* Number of requests in flight at the same time under VideoSpec.
NumVideoRequests == 2
\* Largest duration (in seconds) ffprobe reports.
MaxDuration == 1
\* Durations -LoopMaxDuration..LoopMaxDuration and 1..LoopMaxFrames requested
\* frames in the specification of the timestamp loop.
LoopMaxDuration == 4
LoopMaxFrames == 4

\* --------------------------------------------------------- program constants
\* processVideoFrames(filePath, 3)
maxFrames == 3

FrameIdx == 0..(maxFrames - 1)

NoFile == "none"
PdfExts == {"pdf"}
TxtExts == {"txt"}
ImageExts == {"jpg", "jpeg", "png"}
VideoExts == {"mp4", "mov", "avi"}
ALLOWED_EXTENSIONS == {"txt", "pdf", "png", "jpg", "jpeg", "mp4", "mov", "avi"}

\* ------------------------------------------------------------- byte strings
\* A string or buffer is a sequence of atoms; '' and [] are <<>>.  An atom
\* records where the bytes come from and how they are encoded.
Atom(enc, src, r, i) == [enc |-> enc, src |-> src, req |-> r, idx |-> i]

\* Buffer.toString('base64')
ToBase64(buf) == [k \in 1..Len(buf) |-> [buf[k] EXCEPT !.enc = "base64"]]
\* fs.readFileSync(path, 'utf-8') / pdfParse(buffer).text
ToUtf8(buf) == [k \in 1..Len(buf) |-> [buf[k] EXCEPT !.enc = "utf8"]]

\* Possible contents of the uploaded file of request r: empty or not.
UploadBytes(r) == {<<>>, <<Atom("raw", "upload", r, 0)>>}
\* What ffmpeg writes for timestamp i of request r's video.
FrameBytes(r, i) == <<Atom("raw", "frame", r, i)>>

\* `[Error membaca PDF: ${error.message}]`
PdfErrorText == <<Atom("utf8", "[Error membaca PDF]", 0, 0)>>
\* `[Gagal membaca teks file: ${error.message}]`
TxtErrorText == <<Atom("utf8", "[Gagal membaca teks file]", 0, 0)>>

\* The ffprobe callback's arguments (err, metadata.format.duration).
ProbeResults ==
    {[err |-> TRUE, defined |-> FALSE, duration |-> 0],
     [err |-> FALSE, defined |-> FALSE, duration |-> 0]}
    \cup {[err |-> FALSE, defined |-> TRUE, duration |-> d] : d \in 0..MaxDuration}

VARIABLES
    message,          \* req.body.message || '' : "" or a non-empty text
    fileExt,          \* declared extension of req.file, or NoFile
    upload,           \* the uploaded file exists on storage
    pc,               \* where the handler of each request stands
    contextData,      \* { type, content }
    probe,            \* <<>> or <<the ffprobe callback's arguments>>
    tempDir,          \* uploads/temp_frames exists
    frameFile,        \* uploads/temp_frames/frame_${index}.jpg : bytes or <<>>
    job,              \* state of each ffmpeg screenshot job
    processedFrames,  \* let processedFrames
    framesBase64,     \* const framesBase64
    settled,          \* the sampler's promise: "pending", "resolved", "rejected"
    docFailed,        \* reading / parsing the txt or pdf upload failed
    encoded,          \* <<>> or <<what encodeImageToBase64 returned>>
    aiClient,         \* let aiClient (TRUE: initialized, FALSE: null)
    aiCalls,          \* payloads callAiApi was called with, in order
    network,          \* number of aiClient.chat.completions.create calls
    request,          \* <<>> or the userContent sent with that call
    pushed,           \* timestamp indexes in the order framesBase64.push ran
    log,              \* what the handler did, in order: unlinks, gateway calls
    timestamps,       \* the loop of lines 141-144: duration, maxFrames, the list
    sent              \* responses written to res, in order

vars == <<message, fileExt, upload, pc, contextData, probe, tempDir, frameFile,
          job, processedFrames, framesBase64, settled, docFailed, encoded,
          aiClient, aiCalls, network, request, pushed, log, timestamps, sent>>

\* The requests in flight: one invocation of the handler each.
Requests == DOMAIN pc


\* ------------------------------------------------------------ initial state
\* Requests as multer hands them to the handler: a message (possibly empty),
\* at most one file with an allowed extension, stored under a name of its
\* own.  The stored copy may already be gone when the handler reads it (the
\* ENOENT that the catch blocks around readFileSync and unlinkSync expect).
Received(reqs) ==
    /\ pc = [r \in reqs |-> "received"]
    /\ message \in [reqs -> {"", "text"}]
    /\ fileExt \in [reqs -> ALLOWED_EXTENSIONS \cup {NoFile}]
    /\ upload \in [reqs -> BOOLEAN]
    /\ \A r \in reqs : fileExt[r] = NoFile => ~upload[r]
    /\ contextData = [r \in reqs |-> [type |-> "none", content |-> <<>>]]
    /\ sent = [r \in reqs |-> <<>>]

\* Nothing sampled yet; uploads/temp_frames does not exist.
SamplerIdle(reqs) ==
    /\ probe = [r \in reqs |-> <<>>]
    /\ tempDir = FALSE
    /\ frameFile = [i \in FrameIdx |-> <<>>]
    /\ job = [r \in reqs |-> [i \in FrameIdx |-> "none"]]
    /\ processedFrames = [r \in reqs |-> 0]
    /\ framesBase64 = [r \in reqs |-> <<>>]
    /\ settled = [r \in reqs |-> "pending"]
    /\ pushed = [r \in reqs |-> <<>>]

\* initializeAiClient() at startup (lines 68-90): a client, or null.
GatewayStarted(reqs) ==
    /\ aiClient \in BOOLEAN
    /\ aiCalls = [r \in reqs |-> <<>>]
    /\ network = [r \in reqs |-> 0]
    /\ request = [r \in reqs |-> <<>>]
    /\ log = [r \in reqs |-> <<>>]
    /\ docFailed = [r \in reqs |-> FALSE]
    /\ encoded = [r \in reqs |-> <<>>]

\* const timestamps = [] (line 141), for a probed duration and maxFrames.
LoopStart(duration, n) == [duration |-> duration, maxFrames |-> n, list |-> <<>>]

\* No sampler run has reached line 141.
LoopIdle == timestamps = LoopStart(0, 0)

\* Any mix of NumRequests requests in flight, at most one of them carrying a
\* video.
Init ==
    /\ LoopIdle
    /\ Received(1..NumRequests)
    /\ SamplerIdle(1..NumRequests)
    /\ GatewayStarted(1..NumRequests)
    /\ \A r1, r2 \in 1..NumRequests :
          r1 # r2 => ~(fileExt[r1] \in VideoExts /\ fileExt[r2] \in VideoExts)

\* Videos in flight together: the first request carries an mp4, the others
\* a mov, a pdf, a txt, a png or no file.
VideoInit ==
    /\ LoopIdle
    /\ Received(1..NumVideoRequests)
    /\ SamplerIdle(1..NumVideoRequests)
    /\ GatewayStarted(1..NumVideoRequests)
    /\ \A r \in 1..NumVideoRequests :
          IF r = 1 THEN fileExt[r] = "mp4" /\ message[r] = "text"
          ELSE fileExt[r] \in {"mov", "pdf", "txt", "png", NoFile}

\* ------------------------------------------------------------ environment
\* fs.readFileSync(filePath) of the upload: succeeds only if the file exists.
ReadOutcomes(r) == IF upload[r] THEN {TRUE, FALSE} ELSE {FALSE}
\* fs.unlinkSync(filePath) of the upload: succeeds only if the file exists.
UnlinkOutcomes(r) == IF upload[r] THEN {TRUE, FALSE} ELSE {FALSE}

\* ---------------------------------------------------------------- responses
Reply(kind) == [status |-> 200, body |-> "reply", reply |-> kind]
EmptyMessageError == [status |-> 400, body |-> "error", reply |-> "Pesan tidak boleh kosong"]
ImageError == [status |-> 400, body |-> "error", reply |-> "Gagal membaca gambar"]
VideoError == [status |-> 400, body |-> "error", reply |-> "Gagal membaca video"]
ServerError == [status |-> 500, body |-> "error+message", reply |-> "Terjadi kesalahan pada server"]

Respond(r, resp) == sent' = [sent EXCEPT ![r] = Append(@, resp)]

SamplerVars == <<probe, tempDir, frameFile, job, processedFrames, framesBase64, settled,
                 pushed>>

\* ------------------------------------------------------------ handler tail
\* fs.unlinkSync(filePath) returned, or threw.
UnlinkEvent(unlinkOk) == IF unlinkOk THEN "unlink:ok" ELSE "unlink:failed"

\* The try/catch of lines 308-312 dropped: a failing unlinkSync reaches the
\* outer catch, which answers 500.
DeleteThenCallAi_Unguarded(r, ctx, unlinkOk) ==
    /\ upload' = [upload EXCEPT ![r] = IF unlinkOk THEN FALSE ELSE @]
    /\ contextData' = [contextData EXCEPT ![r] = ctx]
    /\ IF unlinkOk \/ fileExt[r] = NoFile
       THEN /\ aiCalls' = [aiCalls EXCEPT ![r] = Append(@, ctx)]
            /\ log' = [log EXCEPT ![r] =
                          (IF fileExt[r] # NoFile THEN @ \o <<UnlinkEvent(unlinkOk)>> ELSE @)
                              \o <<"callAiApi">>]
            /\ pc' = [pc EXCEPT ![r] = "calling"]
            /\ UNCHANGED sent
       ELSE /\ log' = [log EXCEPT ![r] = Append(@, UnlinkEvent(unlinkOk))]
            /\ Respond(r, ServerError)
            /\ pc' = [pc EXCEPT ![r] = "done"]
            /\ UNCHANGED aiCalls

\* Lines 307-315: try { unlinkSync } catch { warn }, then callAiApi(userMessage,
\* contextData) up to its first await.
DeleteThenCallAi(r, ctx, unlinkOk) ==
    /\ upload' = [upload EXCEPT ![r] = IF unlinkOk THEN FALSE ELSE @]
    /\ contextData' = [contextData EXCEPT ![r] = ctx]
    /\ aiCalls' = [aiCalls EXCEPT ![r] = Append(@, ctx)]
    /\ log' = [log EXCEPT ![r] = (IF fileExt[r] # NoFile THEN @ \o <<UnlinkEvent(unlinkOk)>> ELSE @)
                                    \o <<"callAiApi">>]
    /\ pc' = [pc EXCEPT ![r] = "calling"]
    /\ UNCHANGED sent

\* Lines 291-293 and 301-303: unlinkSync outside any inner try, then the 400;
\* if unlinkSync throws, the outer catch (lines 319-325) answers 500.
AbortUnreadable(r, ctx, resp, unlinkOk) ==
    /\ upload' = [upload EXCEPT ![r] = IF unlinkOk THEN FALSE ELSE @]
    /\ contextData' = [contextData EXCEPT ![r] = ctx]
    /\ Respond(r, IF unlinkOk THEN resp ELSE ServerError)
    /\ log' = [log EXCEPT ![r] = Append(@, UnlinkEvent(unlinkOk))]
    /\ pc' = [pc EXCEPT ![r] = "done"]
    /\ UNCHANGED aiCalls

\* ------------------------------------------------- handler: first run
\* The validation of line 264 dropped.
EmptyMessage_Never(r) == FALSE

\* Line 264: !userMessage
EmptyMessage(r) == message[r] = ""

\* Lines 262-266.
RejectEmpty(r) ==
    /\ pc[r] = "received"
    /\ EmptyMessage(r)
    /\ Respond(r, EmptyMessageError)
    /\ pc' = [pc EXCEPT ![r] = "done"]
    /\ UNCHANGED <<message, fileExt, upload, contextData, SamplerVars, docFailed,
                   encoded, aiClient, aiCalls, network, request, log>>

\* Lines 268-270, 315: no file.
HandleNoFile(r) ==
    /\ pc[r] = "received"
    /\ ~EmptyMessage(r)
    /\ fileExt[r] = NoFile
    /\ DeleteThenCallAi(r, contextData[r], FALSE)
    /\ UNCHANGED <<message, fileExt, SamplerVars, docFailed, encoded, aiClient, network,
                   request>>

\* Lines 275-277 with extractTextFromPdf up to `await pdfParse`; a readFileSync
\* failure is caught there and the handler goes on with the error text.
HandlePdf(r) ==
    /\ pc[r] = "received"
    /\ ~EmptyMessage(r)
    /\ fileExt[r] \in PdfExts
    /\ \E readOk \in ReadOutcomes(r) :
          IF readOk
          THEN /\ contextData' = [contextData EXCEPT ![r].type = "text"]
               /\ pc' = [pc EXCEPT ![r] = "pdfParsing"]
               /\ UNCHANGED <<upload, aiCalls, sent, docFailed, log>>
          ELSE /\ docFailed' = [docFailed EXCEPT ![r] = TRUE]
               /\ \E unlinkOk \in UnlinkOutcomes(r) :
                     DeleteThenCallAi(r, [type |-> "text", content |-> PdfErrorText], unlinkOk)
    /\ UNCHANGED <<message, fileExt, SamplerVars, encoded, aiClient, network, request>>

\* extractTextFromPdf after `await pdfParse(dataBuffer)` (lines 107-112), then
\* lines 307-315.
PdfParsed(r) ==
    /\ pc[r] = "pdfParsing"
    /\ \E parseOk \in BOOLEAN, buf \in UploadBytes(r), unlinkOk \in UnlinkOutcomes(r) :
          /\ docFailed' = [docFailed EXCEPT ![r] = ~parseOk]
          /\ DeleteThenCallAi(r, [type |-> "text",
                                  content |-> IF parseOk THEN ToUtf8(buf) ELSE PdfErrorText],
                              unlinkOk)
    /\ UNCHANGED <<message, fileExt, SamplerVars, encoded, aiClient, network, request>>

\* The catch block dropped: the content is whatever was read, error or not.
TxtContent_NoCatch(readOk, buf) == ToUtf8(buf)

\* The content of a txt upload: lines 280-284.
TxtContent(readOk, buf) == IF readOk THEN ToUtf8(buf) ELSE TxtErrorText

\* Lines 278-284, then 307-315.
HandleTxt(r) ==
    /\ pc[r] = "received"
    /\ ~EmptyMessage(r)
    /\ fileExt[r] \in TxtExts
    /\ \E readOk \in ReadOutcomes(r), buf \in UploadBytes(r), unlinkOk \in UnlinkOutcomes(r) :
          /\ docFailed' = [docFailed EXCEPT ![r] = ~readOk]
          /\ DeleteThenCallAi(r, [type |-> "text", content |-> TxtContent(readOk, buf)],
                              unlinkOk)
    /\ UNCHANGED <<message, fileExt, SamplerVars, encoded, aiClient, network, request>>

\* null
Null == <<Atom("null", "null", 0, 0)>>
\* Only null is refused: `encoded !== null`.
Truthy_NotNull(v) == v # Null

\* JavaScript truthiness of a string-or-null: neither null nor ''.
Truthy(v) == v # Null /\ v # <<>>

\* encodeImageToBase64 (lines 94-102): the base64 text, or null.
encodeImageToBase64(readOk, buf) == IF readOk THEN ToBase64(buf) ELSE Null

\* Lines 285-294, then 307-315.
HandleImage(r) ==
    /\ pc[r] = "received"
    /\ ~EmptyMessage(r)
    /\ fileExt[r] \in ImageExts
    /\ \E readOk \in ReadOutcomes(r), buf \in UploadBytes(r), unlinkOk \in UnlinkOutcomes(r) :
          LET enc == encodeImageToBase64(readOk, buf) IN
          /\ encoded' = [encoded EXCEPT ![r] = <<enc>>]
          /\ IF Truthy(enc)
             THEN DeleteThenCallAi(r, [type |-> "image", content |-> enc], unlinkOk)
             ELSE AbortUnreadable(r, [type |-> "image", content |-> <<>>], ImageError, unlinkOk)
    /\ UNCHANGED <<message, fileExt, SamplerVars, docFailed, aiClient, network, request>>

\* ----------------------------------------------------------- Frame Sampler
\* Lines 295-296 and processVideoFrames up to the ffprobe call (lines 116-126).
\* mkdirSync runs inside the promise executor: if it throws, the promise is
\* rejected, the await throws and the outer catch answers 500.
HandleVideo(r) ==
    /\ pc[r] = "received"
    /\ ~EmptyMessage(r)
    /\ fileExt[r] \in VideoExts
    /\ \E mkdirOk \in (IF tempDir THEN {TRUE} ELSE {TRUE, FALSE}) :
          IF mkdirOk
          THEN /\ tempDir' = TRUE
               /\ pc' = [pc EXCEPT ![r] = "probing"]
               /\ UNCHANGED <<settled, sent>>
          ELSE /\ settled' = [settled EXCEPT ![r] = "rejected"]
               /\ Respond(r, ServerError)
               /\ pc' = [pc EXCEPT ![r] = "done"]
               /\ UNCHANGED tempDir
    /\ UNCHANGED <<message, fileExt, upload, contextData, probe, frameFile, job,
                   processedFrames, framesBase64, docFailed, encoded, aiClient, aiCalls,
                   network, request, pushed, log>>

\* The zero test dropped: only an undefined duration counts as missing.
DurationMissing_OnlyUndefined(res) == ~res.defined

\* Line 134: !duration || duration === 0
DurationMissing(res) == ~res.defined \/ res.duration = 0

\* The ffprobe callback, lines 126-158: resolve([]) on a probe error or a
\* missing duration, else start one ffmpeg screenshot job per timestamp.
ProbeCallback(r) ==
    /\ pc[r] = "probing"
    /\ \E res \in ProbeResults :
          /\ ~upload[r] => res.err
          /\ probe' = [probe EXCEPT ![r] = <<res>>]
          /\ IF res.err \/ DurationMissing(res)
             THEN /\ settled' = [settled EXCEPT ![r] = "resolved"]
                  /\ pc' = [pc EXCEPT ![r] = "sampled"]
                  /\ UNCHANGED job
             ELSE /\ job' = [job EXCEPT ![r] = [i \in FrameIdx |-> "running"]]
                  /\ pc' = [pc EXCEPT ![r] = "extracting"]
                  /\ UNCHANGED settled
    /\ UNCHANGED <<message, fileExt, upload, contextData, tempDir, frameFile,
                   processedFrames, framesBase64, docFailed, encoded, aiClient, aiCalls,
                   network, request, pushed, log, sent>>

\* ffmpeg writes folder/filename (lines 153-158): uploads/temp_frames/frame_i.jpg,
\* whatever request it runs for.  It needs the folder to exist.
FfmpegWrite(r, i) ==
    /\ job[r][i] = "running"
    /\ tempDir
    /\ frameFile' = [frameFile EXCEPT ![i] = FrameBytes(r, i)]
    /\ job' = [job EXCEPT ![r][i] = "written"]
    /\ UNCHANGED <<message, fileExt, upload, pc, contextData, probe, tempDir,
                   processedFrames, framesBase64, settled, docFailed, encoded, aiClient,
                   aiCalls, network, request, pushed, log, sent>>

\* The frame inserted at its timestamp's place instead of at the end.
Push_ByTimestamp(frames, frame) ==
    SelectSeq(frames, LAMBDA f : f.idx < frame.idx) \o <<frame>>
        \o SelectSeq(frames, LAMBDA f : f.idx >= frame.idx)

\* Line 162: framesBase64.push(frame)
Push(frames, frame) == Append(frames, frame)

\* Line 168 / 180: processedFrames === timestamps.length
AllProcessed(n) == n = maxFrames

\* fs.rmdirSync(tempDir), line 170: needs an existing, empty directory.
RmdirPossible(files) == tempDir /\ \A j \in FrameIdx : files[j] = <<>>

FsFaults == {"none", "read", "unlink", "rmdir"}

\* The 'end' handler, lines 159-176.  Any of readFileSync, unlinkSync and
\* rmdirSync may throw; the catch only logs.
OnEnd(r, i) ==
    /\ job[r][i] = "written"
    /\ \E fault \in FsFaults :
          LET readOk == frameFile[i] # <<>> /\ fault # "read"
              unlinkOk == readOk /\ fault # "unlink"
              files == [frameFile EXCEPT ![i] = <<>>]
              count == processedFrames[r] + 1
              last == unlinkOk /\ AllProcessed(count)
              rmdirOk == last /\ RmdirPossible(files) /\ fault # "rmdir"
          IN  /\ fault = "rmdir" => last
              /\ fault = "unlink" => readOk
              /\ framesBase64' = [framesBase64 EXCEPT ![r] =
                                     IF readOk THEN Push(@, ToBase64(frameFile[i])[1]) ELSE @]
              /\ pushed' = [pushed EXCEPT ![r] = IF readOk THEN Append(@, i) ELSE @]
              /\ frameFile' = IF unlinkOk THEN files ELSE frameFile
              /\ processedFrames' = [processedFrames EXCEPT ![r] = IF unlinkOk THEN count ELSE @]
              /\ tempDir' = IF rmdirOk THEN FALSE ELSE tempDir
              /\ settled' = [settled EXCEPT ![r] = IF rmdirOk THEN "resolved" ELSE @]
              /\ pc' = [pc EXCEPT ![r] = IF rmdirOk THEN "sampled" ELSE @]
    /\ job' = [job EXCEPT ![r][i] = "ended"]
    /\ UNCHANGED <<message, fileExt, upload, contextData, probe, docFailed, encoded, aiClient,
                   aiCalls, network, request, log, sent>>

\* The 'error' handler, lines 177-183.
OnError(r, i) ==
    /\ job[r][i] = "running"
    /\ LET count == processedFrames[r] + 1 IN
          /\ processedFrames' = [processedFrames EXCEPT ![r] = count]
          /\ settled' = [settled EXCEPT ![r] = IF AllProcessed(count) THEN "resolved" ELSE @]
          /\ pc' = [pc EXCEPT ![r] = IF AllProcessed(count) THEN "sampled" ELSE @]
    /\ job' = [job EXCEPT ![r][i] = "failed"]
    /\ UNCHANGED <<message, fileExt, upload, contextData, probe, tempDir, frameFile,
                   framesBase64, docFailed, encoded, aiClient, aiCalls, network, request,
                   pushed, log, sent>>

\* Lines 296-305 after `await processVideoFrames`, then 307-315.
AfterSampler(r) ==
    /\ pc[r] = "sampled"
    /\ \E unlinkOk \in UnlinkOutcomes(r) :
          LET frames == framesBase64[r] IN
          IF Len(frames) > 0
          THEN DeleteThenCallAi(r, [type |-> "video_frames", content |-> frames], unlinkOk)
          ELSE AbortUnreadable(r, contextData[r], VideoError, unlinkOk)
    /\ UNCHANGED <<message, fileExt, SamplerVars, docFailed, encoded, aiClient, network,
                   request>>

\* ---------------------------------------------------------------- AI Gateway
\* callAiApi (lines 191-244) after its first await, and lines 315-317: without a
\* client the fixed warning; else one network call whose failure (a thrown
\* error, a response without choices) is turned into a warning string.
AiOutcomes == {"network:ok", "network:error", "network:nochoices"}

\* The null test of line 192 dropped: the call on null throws inside the try.
AiReply_NoClientCheck(configured, outcome) ==
    IF configured /\ outcome = "network:ok" THEN "model text" ELSE "warning: error"

\* A response without choices read leniently: no throw, the reply is undefined.
AiReply_LenientChoices(configured, outcome) ==
    IF ~configured THEN "warning: not configured"
    ELSE IF outcome = "network:error" THEN "warning: error"
    ELSE IF outcome = "network:nochoices" THEN "undefined"
    ELSE "model text"

AiReply(configured, outcome) ==
    IF ~configured THEN "warning: not configured"
    ELSE IF outcome = "network:ok" THEN "model text"
    ELSE "warning: error"

\* The parts of the user message.
TextPart(prefix, body) == [type |-> "text", prefix |-> prefix, body |-> body]
ImagePart(b64) == [type |-> "image_url", prefix |-> "data:image/jpeg;base64,", body |-> b64]
FramesAnnouncement ==
    <<Atom("utf8", "Berikut adalah beberapa frame dari video yang diunggah user:", 0, 0)>>

\* The frames added with unshift-like order: last stored frame first.
UserContent_FramesReversed(userText, ctx) ==
    <<TextPart("", <<Atom("utf8", userText, 0, 0)>>)>> \o
    (IF ctx.type = "text"
     THEN <<TextPart("ISI DOKUMEN:", ctx.content)>>
     ELSE IF ctx.type = "image"
     THEN (IF ctx.content # <<>> THEN <<ImagePart(ctx.content)>> ELSE <<>>)
     ELSE IF ctx.type = "video_frames"
     THEN (IF Len(ctx.content) > 0
           THEN <<TextPart("", FramesAnnouncement)>> \o
                [k \in 1..Len(ctx.content) |->
                    ImagePart(<<ctx.content[Len(ctx.content) + 1 - k]>>)]
           ELSE <<>>)
     ELSE <<>>)

\* userContent, lines 199-226.
UserContent(userText, ctx) ==
    <<TextPart("", <<Atom("utf8", userText, 0, 0)>>)>> \o
    (IF ctx.type = "text"
     THEN <<TextPart("ISI DOKUMEN:", ctx.content)>>
     ELSE IF ctx.type = "image"
     THEN (IF ctx.content # <<>> THEN <<ImagePart(ctx.content)>> ELSE <<>>)
     ELSE IF ctx.type = "video_frames"
     THEN (IF Len(ctx.content) > 0
           THEN <<TextPart("", FramesAnnouncement)>> \o
                [k \in 1..Len(ctx.content) |-> ImagePart(<<ctx.content[k]>>)]
           ELSE <<>>)
     ELSE <<>>)

AiReturns(r) ==
    /\ pc[r] = "calling"
    /\ \E outcome \in AiOutcomes :
          /\ Respond(r, Reply(AiReply(aiClient, outcome)))
          /\ log' = [log EXCEPT ![r] = IF aiClient THEN Append(@, outcome) ELSE @]
    /\ network' = [network EXCEPT ![r] = IF aiClient THEN @ + 1 ELSE @]
    /\ request' = [request EXCEPT ![r] =
                      IF aiClient THEN UserContent(message[r], contextData[r]) ELSE @]
    /\ pc' = [pc EXCEPT ![r] = "done"]
    /\ UNCHANGED <<message, fileExt, upload, contextData, SamplerVars, docFailed,
                   encoded, aiClient, aiCalls>>

\* ----------------------------------------------------------- specification
\* Every step the event loop can take for request r.
Step(r) ==
    \/ RejectEmpty(r)
    \/ HandleNoFile(r)
    \/ HandlePdf(r)
    \/ PdfParsed(r)
    \/ HandleTxt(r)
    \/ HandleImage(r)
    \/ HandleVideo(r)
    \/ ProbeCallback(r)
    \/ \E i \in FrameIdx : FfmpegWrite(r, i)
    \/ \E i \in FrameIdx : OnEnd(r, i)
    \/ \E i \in FrameIdx : OnError(r, i)
    \/ AfterSampler(r)
    \/ AiReturns(r)

Next == (\E r \in Requests : Step(r)) /\ UNCHANGED timestamps

\* (duration * (i + 1)) / (maxFrames + 1), line 143, as an exact fraction.
Timestamp(duration, n, i) == [num |-> duration * (i + 1), den |-> n + 1]

\* a < b for fractions with positive denominators.
Before(a, b) == a.num * b.den < b.num * a.den

Whole(k) == [num |-> k, den |-> 1]

\* The durations the guard of line 134 lets through to line 141.
AcceptedDurations ==
    {d \in (0 - LoopMaxDuration)..LoopMaxDuration :
        ~DurationMissing([err |-> FALSE, defined |-> TRUE, duration |-> d])}

\* The sampler reaches line 141 with an accepted duration and N >= 1 requested
\* frames; no request is in flight.
TimestampInit ==
    /\ Received({})
    /\ SamplerIdle({})
    /\ GatewayStarted({})
    /\ \E d \in AcceptedDurations, n \in 1..LoopMaxFrames : timestamps = LoopStart(d, n)

\* One iteration of for (let i = 0; i < maxFrames; i++), lines 142-144.
TimestampLoop ==
    /\ Len(timestamps.list) < timestamps.maxFrames
    /\ timestamps' = [timestamps EXCEPT
                         !.list = Append(@, Timestamp(timestamps.duration,
                                                      timestamps.maxFrames, Len(@)))]
    /\ UNCHANGED <<message, fileExt, upload, pc, contextData, probe, tempDir, frameFile,
                   job, processedFrames, framesBase64, settled, docFailed, encoded,
                   aiClient, aiCalls, network, request, pushed, log, sent>>

TimestampSpec == TimestampInit /\ [][TimestampLoop]_vars

Spec == Init /\ [][Next]_vars

VideoSpec == VideoInit /\ [][Next]_vars

\* ------------------------------------------------------------------ claims
HasFile(r) == fileExt[r] # NoFile
\* The handler of r has left the file-processing block (lines 270-313): by
\* falling out of it, by one of its returns, or by an exception.
LeftFileBlock(r) == HasFile(r) /\ message[r] # "" /\ pc[r] \in {"calling", "done"}
Answered(r) == sent[r] # <<>>
\* Every screenshot job of r has had its 'end' or 'error' handler run.
AllJobsCompleted(r) == \A i \in FrameIdx : job[r][i] \in {"ended", "failed"}
ExtractionAttempted(r) == \E i \in FrameIdx : job[r][i] # "none"
NoFrameFileOf(r) == \A i \in FrameIdx : frameFile[i] = <<>> \/ frameFile[i][1].req # r

\* C1: once the handler has left the file-processing block of a request that
\* carries a file, the uploaded file no longer exists on storage.
C1_UploadGoneAfterContextBuilder ==
    \A r \in Requests : LeftFileBlock(r) => ~upload[r]

\* C2: on every exit path (200, 400 empty message, 400 unreadable image or
\* video, 500) the uploaded file has been deleted when the response is sent.
C2_UploadGoneOnEveryExit ==
    \A r \in Requests : (HasFile(r) /\ Answered(r)) => ~upload[r]

\* C3: once the probe gave a positive duration and every one of the N
\* extractions has completed (its 'end' or 'error' handler has run, whatever
\* threw inside it), the sampler has resolved.
C3_SamplerResolvesAfterAllJobs ==
    \A r \in Requests : AllJobsCompleted(r) => settled[r] = "resolved"

\* C4: every request is answered exactly once, with {reply} and 200, {error}
\* and 400 or {error, message} and 500: at any time a request has one such
\* response, or it has none yet and its handling can still take a step.
C4_ExactlyOneResponse ==
    \A r \in Requests :
        \/ /\ Len(sent[r]) = 1
           /\ <<sent[r][1].status, sent[r][1].body>>
                 \in {<<200, "reply">>, <<400, "error">>, <<500, "error+message">>}
        \/ /\ sent[r] = <<>>
           /\ ENABLED Step(r)

\* C5: video requests in flight together do not interfere through frame
\* storage: the frames a request collects are frames of its own video, and a
\* frame file that ffmpeg wrote for a request is still there, unchanged, when
\* that request's 'end' handler comes to read it.
C5_NoCrossRequestFrames ==
    \A r \in Requests :
        /\ \A k \in 1..Len(framesBase64[r]) : framesBase64[r][k].req = r
        /\ \A i \in FrameIdx : job[r][i] = "written" =>
              frameFile[i] # <<>> /\ frameFile[i][1].req = r

\* C6: whenever the sampler resolves after attempting extraction, the temporary
\* directory has been removed and no frame file of the request is left.
C6_TempDirRemovedOnResolve ==
    \A r \in Requests :
        (pc[r] = "sampled" /\ ExtractionAttempted(r)) => (~tempDir /\ NoFrameFileOf(r))

\* C7: when the probe fails or the duration is undefined or zero, the sampler
\* resolves with an empty sequence and no frame extraction is ever started.
C7_NoDurationNoExtraction ==
    \A r \in Requests :
        (probe[r] # <<>>
            /\ (probe[r][1].err \/ ~probe[r][1].defined \/ probe[r][1].duration = 0))
        => /\ settled[r] = "resolved"
           /\ framesBase64[r] = <<>>
           /\ \A i \in FrameIdx : job[r][i] = "none"

\* A video whose probe reported duration 0 has been handled to the end.
C7_Witness ==
    \E r \in Requests :
        /\ probe[r] # <<>>
        /\ ~probe[r][1].err /\ probe[r][1].defined /\ probe[r][1].duration = 0
        /\ pc[r] = "done"

\* C8: when the sampler returned an empty sequence for a video upload, the
\* request ends with a 400 and the AI Gateway is never called for it; no
\* video_frames payload with empty content reaches the gateway.
C8_EmptyFramesRejected ==
    \A r \in Requests :
        /\ (fileExt[r] \in VideoExts /\ settled[r] = "resolved" /\ framesBase64[r] = <<>>)
           => /\ aiCalls[r] = <<>>
              /\ pc[r] = "done" => (Len(sent[r]) = 1 /\ sent[r][1].status = 400)
        /\ \A k \in 1..Len(aiCalls[r]) :
              aiCalls[r][k].type = "video_frames" => aiCalls[r][k].content # <<>>

\* C9: when the Image Encoder returned its sentinel, the request ends with a
\* 400 (not a 500), the uploaded file is absent afterwards and the AI Gateway
\* is not called.
C9_UnreadableImageIs400 ==
    \A r \in Requests :
        (encoded[r] = <<Null>> /\ pc[r] = "done")
        => /\ Len(sent[r]) = 1 /\ sent[r][1].status = 400
           /\ ~upload[r]
           /\ aiCalls[r] = <<>>

\* C10: a read or parse failure of a txt or pdf upload never aborts the
\* request: the payload is of kind text with the error text as content, the
\* AI Gateway is called with it, and the response is a reply with status 200.
C10_DocFailureDegrades ==
    \A r \in Requests :
        docFailed[r]
        => /\ contextData[r].type = "text"
           /\ contextData[r].content \in {PdfErrorText, TxtErrorText}
           /\ aiCalls[r] = <<contextData[r]>>
           /\ \A k \in 1..Len(sent[r]) : sent[r][k] \in {Reply(a) : a \in {AiReply(c, o) : c \in BOOLEAN, o \in AiOutcomes}}
           /\ pc[r] = "done" => Len(sent[r]) = 1

\* A pdf that is on storage but could not be read or parsed has been handled
\* to the end.
C10_Witness ==
    \E r \in Requests :
        /\ docFailed[r]
        /\ fileExt[r] = "pdf"
        /\ upload[r]
        /\ pc[r] = "done"

Logged(r, events) == \E k \in 1..Len(log[r]) : log[r][k] \in events
Done(r) == pc[r] = "done"

\* C11: when the AI client was never initialized, every call of the AI Gateway,
\* whatever the payload kind, returns the fixed warning and makes no network
\* call.
C11_UnconfiguredGatewayWarns ==
    ~aiClient =>
        \A r \in Requests :
            /\ network[r] = 0
            /\ request[r] = <<>>
            /\ ~Logged(r, AiOutcomes)
            /\ (aiCalls[r] # <<>> /\ Done(r)) => sent[r] = <<Reply("warning: not configured")>>

\* Without a client, a request whose payload is of kind video_frames has been
\* answered.
C11_Witness ==
    /\ ~aiClient
    /\ \E r \in Requests :
          Done(r) /\ aiCalls[r] # <<>> /\ aiCalls[r][1].type = "video_frames"

\* C12: a failing network call (thrown error, response without choices) never
\* surfaces as a fault: the gateway returns the warning string and the request
\* ends with one 200 reply carrying it.
C12_GatewayFailureIsReply ==
    \A r \in Requests :
        Logged(r, {"network:error", "network:nochoices"})
        => sent[r] = <<Reply("warning: error")>>

\* The remote model answered a request without choices.
C12_Witness ==
    \E r \in Requests : Logged(r, {"network:nochoices"}) /\ Done(r)

\* C13: a request with an empty message gets the 400 and nothing of the
\* pipeline runs for it: no extraction, no encoding, no probe, no frame job,
\* no AI Gateway call, the file (if any) is not touched.
C13_EmptyMessageRunsNothing ==
    \A r \in Requests :
        message[r] = ""
        => /\ pc[r] \in {"received", "done"}
           /\ Done(r) => sent[r] = <<EmptyMessageError>>
           /\ contextData[r] = [type |-> "none", content |-> <<>>]
           /\ ~docFailed[r] /\ encoded[r] = <<>>
           /\ probe[r] = <<>> /\ settled[r] = "pending"
           /\ \A i \in FrameIdx : job[r][i] = "none"
           /\ aiCalls[r] = <<>> /\ network[r] = 0 /\ log[r] = <<>>

\* An empty message that came with a file has been answered.
C13_Witness ==
    \E r \in Requests : message[r] = "" /\ HasFile(r) /\ Done(r)

\* C14: the sequence the sampler resolves with has at most N entries, exactly
\* one for each timestamp of the request's video whose extraction succeeded and
\* none for a timestamp whose extraction failed.
C14_ExactlySucceededFrames ==
    \A r \in Requests :
        (settled[r] = "resolved" /\ ExtractionAttempted(r))
        => /\ Len(framesBase64[r]) <= maxFrames
           /\ \A i \in FrameIdx :
                 Cardinality({k \in 1..Len(framesBase64[r]) :
                                 framesBase64[r][k] = ToBase64(FrameBytes(r, i))[1]})
                    = (IF job[r][i] = "ended" THEN 1 ELSE 0)

\* C15: for all N >= 1 and every duration the sampler accepts, the computed
\* timestamps lie strictly between 0 and duration and strictly increase with i.
C15_TimestampsInsideDuration ==
    LET list == timestamps.list
    IN  /\ \A k \in 1..Len(list) :
              /\ Before(Whole(0), list[k])
              /\ Before(list[k], Whole(timestamps.duration))
        /\ \A k \in 1..(Len(list) - 1) : Before(list[k], list[k + 1])

\* C16: whenever the AI Gateway is called, the kind of the payload fixes the
\* shape of its content and follows the declared extension.
PayloadWellFormed(r, ctx) ==
    CASE ctx.type = "none" -> ctx.content = <<>> /\ fileExt[r] = NoFile
      [] ctx.type = "text" ->
            /\ fileExt[r] \in PdfExts \cup TxtExts
            /\ \A k \in 1..Len(ctx.content) : ctx.content[k].enc = "utf8"
      [] ctx.type = "image" ->
            /\ fileExt[r] \in ImageExts
            /\ ctx.content # <<>>
            /\ \A k \in 1..Len(ctx.content) :
                  ctx.content[k].enc = "base64" /\ ctx.content[k].src = "upload"
      [] ctx.type = "video_frames" ->
            /\ fileExt[r] \in VideoExts
            /\ Len(ctx.content) \in 1..3
            /\ \A k \in 1..Len(ctx.content) :
                  ctx.content[k].enc = "base64" /\ ctx.content[k].src = "frame"
      [] OTHER -> FALSE

C16_PayloadShape ==
    \A r \in Requests :
        \A k \in 1..Len(aiCalls[r]) :
            /\ PayloadWellFormed(r, aiCalls[r][k])
            /\ (fileExt[r] = NoFile) = (aiCalls[r][k].type = "none")

\* The gateway has been called with three frames of a video.
C16_Witness ==
    \E r \in Requests :
        /\ aiCalls[r] # <<>>
        /\ aiCalls[r][1].type = "video_frames"
        /\ Len(aiCalls[r][1].content) = 3

\* C17: the content parts sent to the model start with the user's text part,
\* followed by nothing (none), one marked document part (text), one image part
\* (image), or the announcement and one image part per frame in stored order
\* (video_frames).
C17_ContentParts ==
    \A r \in Requests :
        request[r] # <<>> =>
            LET parts == request[r]
                ctx == contextData[r]
                n == Len(ctx.content)
            IN  /\ parts[1].type = "text"
                /\ parts[1].prefix = ""
                /\ parts[1].body = <<Atom("utf8", message[r], 0, 0)>>
                /\ CASE ctx.type = "none" -> Len(parts) = 1
                     [] ctx.type = "text" ->
                           /\ Len(parts) = 2
                           /\ parts[2].type = "text"
                           /\ parts[2].prefix = "ISI DOKUMEN:"
                           /\ parts[2].body = ctx.content
                     [] ctx.type = "image" ->
                           /\ Len(parts) = 2
                           /\ parts[2].type = "image_url"
                           /\ parts[2].body = ctx.content
                     [] ctx.type = "video_frames" ->
                           /\ Len(parts) = 2 + n
                           /\ parts[2].type = "text"
                           /\ parts[2].body = FramesAnnouncement
                           /\ \A k \in 1..n :
                                 /\ parts[2 + k].type = "image_url"
                                 /\ parts[2 + k].body = <<ctx.content[k]>>
                     [] OTHER -> FALSE

\* A request with two or more video frames has been sent to the model.
C17_Witness ==
    \E r \in Requests :
        /\ request[r] # <<>>
        /\ contextData[r].type = "video_frames"
        /\ Len(contextData[r].content) >= 2

\* C18: the k-th frame of the result is the frame of the k-th 'end' handler
\* that read its file: completion order, not timestamp order.
C18_CompletionOrder ==
    \A r \in Requests :
        /\ Len(framesBase64[r]) = Len(pushed[r])
        /\ \A k \in 1..Len(pushed[r]) : framesBase64[r][k].idx = pushed[r][k]

\* The sampler resolved with a later timestamp's frame before an earlier one.
C18_Witness ==
    \E r \in Requests :
        /\ settled[r] = "resolved"
        /\ Len(framesBase64[r]) = maxFrames
        /\ framesBase64[r][1].idx > framesBase64[r][2].idx

\* The final deletion (lines 307-312, after a branch that produced a payload)
\* failed.
FinalDeletionFailed(r) ==
    /\ Logged(r, {"unlink:failed"})
    /\ \/ contextData[r].type \in {"text", "video_frames"}
       \/ contextData[r].type = "image" /\ contextData[r].content # <<>>

\* C19: the AI Gateway is called at most once per request, only when the file
\* has been processed and its deletion attempted just before; a failed final
\* deletion does not change the response, which is still a reply.
C19_CallOnceAfterCleanup ==
    \A r \in Requests :
        /\ Len(aiCalls[r]) <= 1 /\ network[r] <= 1
        /\ aiCalls[r] # <<>> =>
              /\ pc[r] \in {"calling", "done"}
              /\ \A i \in FrameIdx : job[r][i] \in {"none", "ended", "failed"}
              /\ HasFile(r) =>
                    \E k \in 1..(Len(log[r]) - 1) :
                        /\ log[r][k] \in {"unlink:ok", "unlink:failed"}
                        /\ log[r][k + 1] = "callAiApi"
                        /\ \A j \in 1..(k - 1) : log[r][j] # "callAiApi"
        /\ (FinalDeletionFailed(r) /\ Done(r)) =>
              (Len(sent[r]) = 1 /\ sent[r][1].status = 200 /\ sent[r][1].body = "reply")

\* A request whose final deletion failed, the file still on storage, has been
\* answered.
C19_Witness ==
    \E r \in Requests : FinalDeletionFailed(r) /\ upload[r] /\ Done(r)
=============================================================================
